---- MODULE Spec2Model ----
(***************************************************************************)
(* Decision-tree graph editor: the session graph of streamlit_app.py and   *)
(* the validation / normalisation functions of utils/graph_ops.py.         *)
(*                                                                         *)
(* Probabilities are kept in thousandths (0.5 is 500, 0.333 is 333), the   *)
(* resolution round(x, 3) produces.  Strings are TLA+ strings; Python's    *)
(* None is the value None below.                                           *)
(***************************************************************************)
EXTENDS Integers, Sequences, FiniteSets, TLC

\* nodes, edges: st.session_state.graph; selected_node: st.session_state.selected_node;
\* last: the widget event of the last script run and how it ended (an observer,
\* read by no handler)
VARIABLES nodes, edges, selected_node, last

vars == <<nodes, edges, selected_node, last>>

(***************************************************************************)
(* Bounds of the model                                                     *)
(***************************************************************************)
MaxNodes == 2
MaxEdges == 3

\* what uuid4().hex[:6] can return, scaled down: a finite space of suffixes
NodeIds == {"n_1", "n_2"}
EdgeIds == {"e_1", "e_2"}

None == "None"
Kinds == {"event", "decision", "result"}

\* what the user can type in the forms
NodeLabelInputs == {" ", "A"}
EdgeLabelInputs == {""}
ProbInputs == {0, 500}

(***************************************************************************)
(* Helpers                                                                 *)
(***************************************************************************)
\* str.strip() on the labels the form can hold: whitespace-only becomes empty
strip(s) == IF s \in {"", " "} THEN "" ELSE s

new_node_id == NodeIds
new_edge_id == EdgeIds

kind_rank(k) ==
    CASE k = "event" -> 0
      [] k = "decision" -> 1
      [] k = "result" -> 2
      [] OTHER -> 99

\* e.get("data", {}).get("prob") is not None: the key is there (it never holds None)
has_prob(e) == "prob" \in DOMAIN e.data

\* e.get("data", {}).get("prob") in [None, 0]
prob_none_or_zero(e) == ~has_prob(e) \/ e.data.prob = 0

\* next(n["kind"] for n in graph["nodes"] if n["id"] == x); None stands for StopIteration
kind_of(ns, x) ==
    LET hits == SelectSeq(ns, LAMBDA n : n.id = x)
    IN  IF hits = <<>> THEN None ELSE hits[1].kind

\* node_map keys: the ids in the node sequence
NodeIdsOf(ns) == {ns[i].id : i \in DOMAIN ns}

\* the ids of the nodes whose kind is "decision"
DecisionIds(ns) == {ns[i].id : i \in {j \in DOMAIN ns : ns[j].kind = "decision"}}

\* list(node_labels.keys()): the ids of the nodes, each once
source_options(ns) == {ns[i].id : i \in DOMAIN ns}

\* [n["id"] for n in graph["nodes"] if n["id"] != source]; an empty selectbox returns None
target_options(ns, source) ==
    LET opts == {ns[i].id : i \in DOMAIN ns} \ {source}
    IN  IF opts = {} THEN {None} ELSE opts

(***************************************************************************)
(* Add Edge: the submit handler of add_edge_form                           *)
(***************************************************************************)
\* orient with the rank test written >=: equal ranks swap too
orient_swaps_on_equal(ns, source, target, auto_orient, reverse_dir) ==
    LET src_kind == kind_of(ns, source)
        tgt_kind == kind_of(ns, target)
        o == IF auto_orient /\ kind_rank(src_kind) >= kind_rank(tgt_kind)
             THEN <<target, source>> ELSE <<source, target>>
    IN  IF reverse_dir THEN <<o[2], o[1]>> ELSE o

\* auto-orient, then reverse: the final (_source, _target)
orient(ns, source, target, auto_orient, reverse_dir) ==
    LET src_kind == kind_of(ns, source)
        tgt_kind == kind_of(ns, target)
        o == IF auto_orient /\ kind_rank(src_kind) > kind_rank(tgt_kind)
             THEN <<target, source>> ELSE <<source, target>>
    IN  IF reverse_dir THEN <<o[2], o[1]>> ELSE o

already_exists(es, _source, _target) ==
    \E i \in DOMAIN es : es[i].source = _source /\ es[i].target = _target

\* new_edge with "target" filled from _source
new_edge_target_from_source(eid, _source, _target, edge_label, edge_prob_enabled, edge_prob) ==
    [id |-> eid,
     source |-> _source,
     target |-> _source,
     label |-> IF edge_label = "" THEN None ELSE edge_label,
     data |-> IF edge_prob_enabled THEN [prob |-> edge_prob] ELSE <<>>]

\* the dict appended to graph["edges"]
new_edge(eid, _source, _target, edge_label, edge_prob_enabled, edge_prob) ==
    [id |-> eid,
     source |-> _source,
     target |-> _target,
     label |-> IF edge_label = "" THEN None ELSE edge_label,
     data |-> IF edge_prob_enabled THEN [prob |-> edge_prob] ELSE <<>>]

\* add_edge_result with the duplicate test made on the pair as supplied
add_edge_result_checks_supplied(ns, es, source, target, auto_orient, reverse_dir) ==
    LET st == orient(ns, source, target, auto_orient, reverse_dir)
    IN  IF kind_of(ns, source) = None \/ kind_of(ns, target) = None THEN "crash"
        ELSE IF st[1] = st[2] THEN "self_loop"
        ELSE IF already_exists(es, source, target) THEN "duplicate"
        ELSE "added"

\* what the handler does with the form's values:
\* "crash" (StopIteration at the kind lookup), "self_loop", "duplicate" or "added"
add_edge_result(ns, es, source, target, auto_orient, reverse_dir) ==
    LET st == orient(ns, source, target, auto_orient, reverse_dir)
    IN  IF kind_of(ns, source) = None \/ kind_of(ns, target) = None THEN "crash"
        ELSE IF st[1] = st[2] THEN "self_loop"
        ELSE IF already_exists(es, st[1], st[2]) THEN "duplicate"
        ELSE "added"

\* add_edge_edges warning about a duplicate and appending all the same
add_edge_edges_warns_and_appends(ns, es, source, target, auto_orient, reverse_dir, edge_label, edge_prob_enabled, edge_prob, eid) ==
    LET st == orient(ns, source, target, auto_orient, reverse_dir)
    IN  IF add_edge_result(ns, es, source, target, auto_orient, reverse_dir)
              \in {"added", "duplicate"}
        THEN Append(es, new_edge(eid, st[1], st[2], edge_label, edge_prob_enabled, edge_prob))
        ELSE es

add_edge_edges(ns, es, source, target, auto_orient, reverse_dir, edge_label, edge_prob_enabled, edge_prob, eid) ==
    LET st == orient(ns, source, target, auto_orient, reverse_dir)
    IN  IF add_edge_result(ns, es, source, target, auto_orient, reverse_dir) = "added"
        THEN Append(es, new_edge(eid, st[1], st[2], edge_label, edge_prob_enabled, edge_prob))
        ELSE es

(***************************************************************************)
(* Delete Selected Node                                                    *)
(***************************************************************************)
delete_nodes(ns, node_id) == SelectSeq(ns, LAMBDA n : n.id # node_id)

\* delete_edges keeping the edges that point at the deleted node
delete_edges_by_source_only(es, node_id) ==
    SelectSeq(es, LAMBDA e : e.source # node_id)

\* delete_edges with "or" for "and": only an edge from the node to itself goes
delete_edges_or_for_and(es, node_id) ==
    SelectSeq(es, LAMBDA e : e.source # node_id \/ e.target # node_id)

delete_edges(es, node_id) ==
    SelectSeq(es, LAMBDA e : e.source # node_id /\ e.target # node_id)

(***************************************************************************)
(* auto_compute_probabilities                                              *)
(***************************************************************************)
\* equal_prob cut off after the third decimal instead of rounded
equal_prob_truncates(count) == 1000 \div count

\* equal_prob with integer division: 1 // count
equal_prob_floor_division(count) == IF count = 1 THEN 1000 ELSE 0

\* equal_prob as a percentage: round(100.0 / count, 3)
equal_prob_in_percent(count) == 100000 \div count

\* round(1.0 / count, 3) in thousandths.  1/16 is the one double that lies
\* exactly on a half (0.0625) and goes to the even 0.062; the doubles of 1/80,
\* 1/400 and 1/2000 lie above the half and go up
equal_prob(count) ==
    LET q == 1000 \div count
        r == 1000 % count
    IN  IF 2 * r < count THEN q
        ELSE IF 2 * r > count THEN q + 1
        ELSE IF count = 16 THEN q ELSE q + 1

outgoing_edges(es, node_id) == SelectSeq(es, LAMBDA e : e.source = node_id)

\* auto_compute_node with any() for all(): one absent or zero edge is enough
auto_compute_node_any_for_all(es, node) ==
    LET out == outgoing_edges(es, node.id)
    IN  IF /\ node.kind = "decision"
           /\ out # <<>>
           /\ \E i \in DOMAIN out : prob_none_or_zero(out[i])
        THEN [i \in DOMAIN es |->
                IF es[i].source = node.id
                THEN [es[i] EXCEPT !.data = [prob |-> equal_prob(Len(out))]]
                ELSE es[i]]
        ELSE es

\* auto_compute_node without the test of the node's kind
auto_compute_node_any_kind(es, node) ==
    LET out == outgoing_edges(es, node.id)
    IN  IF /\ out # <<>>
           /\ \A i \in DOMAIN out : prob_none_or_zero(out[i])
        THEN [i \in DOMAIN es |->
                IF es[i].source = node.id
                THEN [es[i] EXCEPT !.data = [prob |-> equal_prob(Len(out))]]
                ELSE es[i]]
        ELSE es

\* the body of the loop for one node: the edges after it
auto_compute_node(es, node) ==
    LET out == outgoing_edges(es, node.id)
    IN  IF /\ node.kind = "decision"
           /\ out # <<>>
           /\ \A i \in DOMAIN out : prob_none_or_zero(out[i])
        THEN [i \in DOMAIN es |->
                IF es[i].source = node.id
                THEN [es[i] EXCEPT !.data = [prob |-> equal_prob(Len(out))]]
                ELSE es[i]]
        ELSE es

\* for node in graph["nodes"]: ..., the edges being updated in place
RECURSIVE auto_compute_probabilities(_, _)
auto_compute_probabilities(ns, es) ==
    IF ns = <<>> THEN es
    ELSE auto_compute_probabilities(Tail(ns), auto_compute_node(es, Head(ns)))

(***************************************************************************)
(* has_cycle: Kahn's algorithm                                             *)
(***************************************************************************)
\* the keys of in_degree in insertion order: the node ids, each once, then
\* every edge target that is no node id
RECURSIVE dedupe(_, _)
dedupe(s, seen) ==
    IF s = <<>> THEN <<>>
    ELSE IF Head(s) \in seen THEN dedupe(Tail(s), seen)
         ELSE <<Head(s)>> \o dedupe(Tail(s), seen \cup {Head(s)})

in_degree_keys(ns, es) ==
    dedupe([i \in DOMAIN ns |-> ns[i].id] \o [i \in DOMAIN es |-> es[i].target], {})

\* in_degree after the first loop over the edges
in_degree_of(ns, es) ==
    [k \in NodeIdsOf(ns) \cup {es[i].target : i \in DOMAIN es} |->
        Cardinality({i \in DOMAIN es : es[i].target = k})]

\* the inner for loop run with the target enqueued on every edge of current
RECURSIVE scan_edges_always_enqueues(_, _, _, _)
scan_edges_always_enqueues(rest, current, in_degree, queue) ==
    IF rest = <<>> THEN <<in_degree, queue>>
    ELSE LET e == Head(rest)
         IN  IF e.source = current
             THEN LET d == [in_degree EXCEPT ![e.target] = @ - 1]
                  IN  scan_edges_always_enqueues(Tail(rest), current, d, Append(queue, e.target))
             ELSE scan_edges_always_enqueues(Tail(rest), current, in_degree, queue)

\* the inner for loop over the edges for one dequeued node: <<in_degree, queue>> after it
RECURSIVE scan_edges(_, _, _, _)
scan_edges(rest, current, in_degree, queue) ==
    IF rest = <<>> THEN <<in_degree, queue>>
    ELSE LET e == Head(rest)
         IN  IF e.source = current
             THEN LET d == [in_degree EXCEPT ![e.target] = @ - 1]
                  IN  scan_edges(Tail(rest), current, d,
                                 IF d[e.target] = 0 THEN Append(queue, e.target) ELSE queue)
             ELSE scan_edges(Tail(rest), current, in_degree, queue)

\* the while loop: visited when the queue is empty
RECURSIVE kahn_visited(_, _, _, _)
kahn_visited(es, in_degree, queue, visited) ==
    IF queue = <<>> THEN visited
    ELSE LET r == scan_edges(es, Head(queue), in_degree, Tail(queue))
         IN  kahn_visited(es, r[1], r[2], visited + 1)

has_cycle(ns, es) ==
    LET in_degree == in_degree_of(ns, es)
        queue == SelectSeq(in_degree_keys(ns, es), LAMBDA k : in_degree[k] = 0)
    IN  kahn_visited(es, in_degree, queue, 0) # Len(ns)

(***************************************************************************)
(* validate_graph                                                          *)
(***************************************************************************)
\* node_map[x]["data"]["label"]: the dict keeps the last node of an id
label_of(ns, x) ==
    LET hits == SelectSeq(ns, LAMBDA n : n.id = x)
    IN  hits[Len(hits)].data.label

\* what outgoing_probs[x] is made of: the probabilities of the edges leaving x
\* that carry one, in the order the loop over the edges adds them
prob_addends(es, x) ==
    LET carrying == SelectSeq(es, LAMBDA e : e.source = x /\ has_prob(e))
    IN  [i \in DOMAIN carrying |-> carrying[i].data.prob]

RECURSIVE SumSeq(_)
SumSeq(s) == IF s = <<>> THEN 0 ELSE Head(s) + SumSeq(Tail(s))

\* outgoing_probs is a sum of doubles.  Added left to right from 0.0, these
\* sequences of nonzero addends give 0.9899999999999999 where the decimal sum
\* is 0.99 ...
FloatSumUnder099 == {<<60, 570, 360>>, <<570, 60, 360>>}

\* ... and these 1.0100000000000002 where the decimal sum is 1.01.  Of the
\* sums the probabilities below (ProbInputs, SumProbChoices, NormProbChoices,
\* the shares of equal_prob up to 26 edges) can form, no other is on the
\* wrong side of 0.99 or 1.01.
FloatSumOver101 == {<<550, 60, 400>>, <<60, 550, 400>>}

\* within_tolerance with both comparisons strict
within_tolerance_open(addends) ==
    LET t == SumSeq(addends)
    IN  990 < t /\ t < 1010

\* 0.99 <= total_prob <= 1.01 on the double total_prob
within_tolerance(addends) ==
    LET t == SumSeq(addends)
        nonzero == SelectSeq(addends, LAMBDA p : p # 0)
    IN  /\ 990 <= t /\ t <= 1010
        /\ ~(t = 990 /\ nonzero \in FloatSumUnder099)
        /\ ~(t = 1010 /\ nonzero \in FloatSumOver101)

\* f"{total_prob:.2f}" in hundredths (no total of the model ends in 5 thousandths
\* where a warning shows it)
two_decimals(t) == (t + 5) \div 10

\* the body of the loop over the nodes for one node: the warnings it appends
prob_sum_warning(es, node) ==
    LET out_edges == outgoing_edges(es, node.id)
        addends == prob_addends(es, node.id)
    IN  IF /\ node.kind = "decision"
           /\ out_edges # <<>>
           /\ ~within_tolerance(addends)
           /\ \E i \in DOMAIN out_edges : has_prob(out_edges[i])
        THEN <<[kind |-> "prob_sum", label |-> node.data.label,
                total |-> two_decimals(SumSeq(addends))]>>
        ELSE <<>>

RECURSIVE prob_sum_warnings(_, _)
prob_sum_warnings(ns, es) ==
    IF ns = <<>> THEN <<>>
    ELSE prob_sum_warning(es, Head(ns)) \o prob_sum_warnings(Tail(ns), es)

\* the warnings of the loop over the edges
self_loop_warnings(ns, es) ==
    LET loops == SelectSeq(es, LAMBDA e : e.source = e.target)
    IN  [i \in DOMAIN loops |-> [kind |-> "self_loop", label |-> label_of(ns, loops[i].source)]]

\* cycle_warning with the optional cycle detection left out
cycle_warning_left_out(ns, es) == <<>>

cycle_warning(ns, es) == IF has_cycle(ns, es) THEN <<[kind |-> "cycle"]>> ELSE <<>>

\* validate_graph with the cycle check made first
validate_graph_cycle_first(ns, es) ==
    cycle_warning(ns, es) \o self_loop_warnings(ns, es) \o prob_sum_warnings(ns, es)

\* the list validate_graph returns for a graph that has its "nodes" and "edges"
validate_graph(ns, es) ==
    self_loop_warnings(ns, es) \o prob_sum_warnings(ns, es) \o cycle_warning(ns, es)

(***************************************************************************)
(* The session: one action per widget that changes the graph, and the      *)
(* validation every script run ends with                                   *)
(***************************************************************************)
Init ==
    /\ nodes = <<>>
    /\ edges = <<>>
    /\ selected_node = None
    /\ last = [op |-> "init"]

\* add_node_form
AddNode ==
    \E new_label \in NodeLabelInputs, node_type \in Kinds, nid \in new_node_id :
        LET ok == strip(new_label) # ""
        IN  /\ ok => Len(nodes) < MaxNodes
            /\ nodes' = IF ok
                        THEN Append(nodes, [id |-> nid,
                                            data |-> [label |-> new_label],
                                            kind |-> node_type])
                        ELSE nodes
            /\ last' = [op |-> "addNode", added |-> ok]
            /\ UNCHANGED <<edges, selected_node>>

\* add_edge_form
AddEdge ==
    /\ Len(nodes) >= 2
    /\ \E source \in source_options(nodes) :
       \E target \in target_options(nodes, source) :
       \E auto_orient \in BOOLEAN, reverse_dir \in BOOLEAN,
          edge_label \in EdgeLabelInputs, edge_prob_enabled \in BOOLEAN, eid \in new_edge_id :
       \E edge_prob \in IF edge_prob_enabled THEN ProbInputs ELSE {None} :
        LET res == add_edge_result(nodes, edges, source, target, auto_orient, reverse_dir)
        IN  /\ res = "added" => Len(edges) < MaxEdges
            /\ edges' = add_edge_edges(nodes, edges, source, target, auto_orient,
                                       reverse_dir, edge_label, edge_prob_enabled,
                                       edge_prob, eid)
            /\ last' = IF res = "added"
                       THEN [op |-> "addEdge", result |-> res,
                             source |-> source, target |-> target,
                             auto_orient |-> auto_orient, reverse_dir |-> reverse_dir]
                       ELSE [op |-> "addEdge", result |-> res,
                             supplied_exists |-> already_exists(edges, source, target)]
            /\ UNCHANGED <<nodes, selected_node>>

\* the canvas reports the node the user clicked, or null on deselect
SelectNode ==
    /\ \E sel \in source_options(nodes) \cup {None} : selected_node' = sel
    /\ last' = [op |-> "select"]
    /\ UNCHANGED <<nodes, edges>>

\* Delete Selected Node button
DeleteNode ==
    IF selected_node # None
    THEN /\ nodes' = delete_nodes(nodes, selected_node)
         /\ edges' = delete_edges(edges, selected_node)
         /\ selected_node' = None
         /\ last' = [op |-> "deleteNode", selected |-> TRUE,
                     edges_removed |-> Len(edges) - Len(delete_edges(edges, selected_node))]
    ELSE /\ last' = [op |-> "deleteNode", selected |-> FALSE, edges_removed |-> 0]
         /\ UNCHANGED <<nodes, edges, selected_node>>

\* Clear Canvas button
Clear ==
    /\ nodes' = <<>>
    /\ edges' = <<>>
    /\ last' = [op |-> "clear"]
    /\ UNCHANGED selected_node

\* Auto-Compute button
AutoCompute ==
    /\ edges' = auto_compute_probabilities(nodes, edges)
    /\ last' = [op |-> "autoCompute"]
    /\ UNCHANGED <<nodes, selected_node>>

\* edges_after_validate with the lookups written setdefault: an edge without a
\* probability leaves with the default stored in it
edges_after_validate_stores_default(es) ==
    [i \in DOMAIN es |->
        IF has_prob(es[i]) THEN es[i] ELSE [es[i] EXCEPT !.data = [prob |-> 0]]]

\* the edges after validate_graph returned: it reads the graph and stores nothing
edges_after_validate(es) == es

\* a script run without a widget event: the graph is validated and the
\* warnings are shown
Validate ==
    /\ edges' = edges_after_validate(edges)
    /\ last' = [op |-> "validate", warnings |-> validate_graph(nodes, edges)]
    /\ UNCHANGED <<nodes, selected_node>>

Next == AddNode \/ AddEdge \/ SelectNode \/ DeleteNode \/ Clear \/ AutoCompute \/ Validate

Spec == Init /\ [][Next]_vars

(***************************************************************************)
(* Delete on three-node graphs: the handler applied to every graph of a    *)
(* bounded family the session can build (three addNode, then addEdge with  *)
(* both flags off), with every selection the canvas can report             *)
(***************************************************************************)
MaxDelEdges == 3

TriIds == {"n_1", "n_2", "n_3"}

SeqsUpTo(S, n) == UNION {[1..k -> S] : k \in 0..n}

sample_node(nid, k) == [id |-> nid, data |-> [label |-> "A"], kind |-> k]

sample_edge(i, s, t) ==
    [id |-> "e_" \o ToString(i), source |-> s, target |-> t, label |-> None, data |-> <<>>]

\* sequences of (source, target) pairs over ids: no pair twice, no pair (x, x)
PairSeqs(ids, n) ==
    {ps \in SeqsUpTo(ids \X ids, n) :
        /\ \A i \in DOMAIN ps : ps[i][1] # ps[i][2]
        /\ \A i, j \in DOMAIN ps : i # j => ps[i] # ps[j]}

InitDelete ==
    /\ \E ids \in [1..3 -> TriIds] :
          nodes = <<sample_node(ids[1], "event"), sample_node(ids[2], "decision"),
                    sample_node(ids[3], "result")>>
    /\ \E ps \in PairSeqs(NodeIdsOf(nodes), MaxDelEdges) :
          edges = [i \in DOMAIN ps |-> sample_edge(i, ps[i][1], ps[i][2])]
    /\ selected_node \in NodeIdsOf(nodes) \cup {None}
    /\ last = [op |-> "init"]

NextDelete == DeleteNode \/ SelectNode

SpecDelete == InitDelete /\ [][NextDelete]_vars

(***************************************************************************)
(* has_cycle as a function: applied to every graph of a bounded family     *)
(* with distinct node ids and edges between them, self-loops and parallel  *)
(* edges included                                                          *)
(***************************************************************************)
MaxCycleNodes == 3
MaxCycleEdges == 3

InitCycle ==
    /\ \E n \in 0..MaxCycleNodes :
          nodes = [i \in 1..n |-> sample_node("n_" \o ToString(i), "event")]
    /\ \E ps \in SeqsUpTo(NodeIdsOf(nodes) \X NodeIdsOf(nodes), MaxCycleEdges) :
          edges = [i \in DOMAIN ps |-> sample_edge(i, ps[i][1], ps[i][2])]
    /\ selected_node = None
    /\ last = [op |-> "init"]

CallHasCycle ==
    /\ last' = [op |-> "has_cycle", result |-> has_cycle(nodes, edges)]
    /\ UNCHANGED <<nodes, edges, selected_node>>

SpecCycle == InitCycle /\ [][CallHasCycle]_vars

(***************************************************************************)
(* Auto-Compute on two hubs: the handler applied to every graph of a       *)
(* bounded family the session can build: hub h_1 of any kind, decision hub *)
(* h_2, the first edges leaving h_1 and the others h_2, each edge without  *)
(* a probability, with 0 or with 0.4                                       *)
(***************************************************************************)
MaxOut == 6

\* the data of an edge: no probability, 0, or 0.4 (in thousandths)
NormProbChoices == {<<>>, [prob |-> 0], [prob |-> 400]}

InitNorm ==
    /\ \E k1 \in Kinds :
          nodes = <<sample_node("h_1", k1), sample_node("h_2", "decision")>>
                  \o [i \in 1..MaxOut |-> sample_node("t_" \o ToString(i), "result")]
    /\ \E k \in 0..MaxOut : \E j \in 0..k : \E ds \in [1..k -> NormProbChoices] :
          edges = [i \in 1..k |->
                     [sample_edge(i, IF i <= j THEN "h_1" ELSE "h_2", "t_" \o ToString(i))
                        EXCEPT !.data = ds[i]]]
    /\ selected_node = None
    /\ last = [op |-> "init"]

SpecNorm == InitNorm /\ [][AutoCompute]_vars

(***************************************************************************)
(* validate_graph on one hub: the function applied to every graph of a     *)
(* bounded family the session can build: a hub of any kind with up to      *)
(* MaxSumEdges edges to result nodes, each without a probability or with   *)
(* one of the values below, as typed into the form                         *)
(***************************************************************************)
MaxSumEdges == 3

\* a node whose label is its id
named_node(nid, k) == [id |-> nid, data |-> [label |-> nid], kind |-> k]

\* the data of an edge: no probability, or 0, 0.06, 0.36, 0.4, 0.5, 0.55, 0.57
SumProbChoices ==
    {<<>>} \cup {[prob |-> p] : p \in {0, 60, 360, 400, 500, 550, 570}}

InitSum ==
    /\ \E k1 \in Kinds :
          nodes = <<named_node("h_1", k1)>>
                  \o [i \in 1..MaxSumEdges |-> named_node("t_" \o ToString(i), "result")]
    /\ \E k \in 0..MaxSumEdges : \E ds \in [1..k -> SumProbChoices] :
          edges = [i \in 1..k |->
                     [sample_edge(i, "h_1", "t_" \o ToString(i)) EXCEPT !.data = ds[i]]]
    /\ selected_node = None
    /\ last = [op |-> "init"]

SpecSum == InitSum /\ [][Validate]_vars

(***************************************************************************)
(* validate_graph as a function: applied to every graph of a bounded       *)
(* family of three nodes (the first an event or a decision node, the       *)
(* second a decision node, the third a result node) with up to MaxValEdges *)
(* edges between them, self-loops and parallel edges included, each edge   *)
(* without a probability or with 0.5                                       *)
(***************************************************************************)
MaxValEdges == 3

ValProbChoices == {<<>>, [prob |-> 500]}

InitValidate ==
    /\ \E k1 \in {"event", "decision"} :
          nodes = <<named_node("n_1", k1), named_node("n_2", "decision"),
                    named_node("n_3", "result")>>
    /\ \E ps \in SeqsUpTo(NodeIdsOf(nodes) \X NodeIdsOf(nodes), MaxValEdges) :
       \E ds \in [DOMAIN ps -> ValProbChoices] :
          edges = [i \in DOMAIN ps |->
                     [sample_edge(i, ps[i][1], ps[i][2]) EXCEPT !.data = ds[i]]]
    /\ selected_node = None
    /\ last = [op |-> "init"]

SpecValidate == InitValidate /\ [][Validate]_vars

(***************************************************************************)
(* A decision node that gains an edge: decision node d_1 with an edge      *)
(* without probability to two of three result nodes, then Auto-Compute,    *)
(* the add_edge_form adding edges that leave d_1, and validation, in any   *)
(* order                                                                   *)
(***************************************************************************)
InitStale ==
    /\ nodes = <<named_node("d_1", "decision"), named_node("r_1", "result"),
                 named_node("r_2", "result"), named_node("r_3", "result")>>
    /\ \E a, b \in {"r_1", "r_2", "r_3"} :
          /\ a # b
          /\ edges = <<sample_edge(3, "d_1", a), sample_edge(4, "d_1", b)>>
    /\ selected_node = None
    /\ last = [op |-> "init"]

\* add_edge_form submitted with values that make the new edge leave a decision
\* node (or rejected)
AddEdgeFromDecision ==
    /\ AddEdge
    /\ last'.result = "added" => edges'[Len(edges')].source \in DecisionIds(nodes)

NextStale == AutoCompute \/ AddEdgeFromDecision \/ Validate

SpecStale == InitStale /\ [][NextStale]_vars

(***************************************************************************)
(* Equal shares on a wide hub: a hub of any kind with up to MaxShareEdges  *)
(* edges to result nodes, all without a probability or all with 0, then    *)
(* Auto-Compute and validation                                             *)
(***************************************************************************)
MaxShareEdges == 24

InitShares ==
    /\ \E k1 \in Kinds :
          nodes = <<named_node("h_1", k1)>>
                  \o [i \in 1..MaxShareEdges |-> named_node("t_" \o ToString(i), "result")]
    /\ \E k \in 0..MaxShareEdges : \E d \in {<<>>, [prob |-> 0]} :
          edges = [i \in 1..k |->
                     [sample_edge(i, "h_1", "t_" \o ToString(i)) EXCEPT !.data = d]]
    /\ selected_node = None
    /\ last = [op |-> "init"]

NextShares == AutoCompute \/ Validate

SpecShares == InitShares /\ [][NextShares]_vars

(***************************************************************************)
(* The session with every edge added under auto-orient and without         *)
(* reverse                                                                 *)
(***************************************************************************)
\* add_edge_form with the Auto-orient box left checked and Reverse unchecked
\* (a rejected submit leaves no trace of its boxes)
AddEdgeOriented ==
    /\ AddEdge
    /\ last'.result = "added" => (last'.auto_orient /\ ~last'.reverse_dir)

NextOriented ==
    AddNode \/ AddEdgeOriented \/ SelectNode \/ DeleteNode \/ Clear \/ AutoCompute \/ Validate

SpecOriented == Init /\ [][NextOriented]_vars

(***************************************************************************)
(* Properties of the session                                               *)
(***************************************************************************)


\* C1: no edge of a reachable graph has its source equal to its target
C1_NoSelfLoop == \A i \in DOMAIN edges : edges[i].source # edges[i].target

\* an edge was just inserted with both flags on, next to an earlier edge
C1_Witness ==
    /\ last.op = "addEdge" /\ last.result = "added"
    /\ last.auto_orient /\ last.reverse_dir
    /\ Len(edges) = 2

\* C2: every edge's source and target is the id of a node of the node sequence
C2_NoDangling ==
    \A i \in DOMAIN edges :
        edges[i].source \in NodeIdsOf(nodes) /\ edges[i].target \in NodeIdsOf(nodes)

\* a delete has just cascaded to an edge and left a node behind
C2_Witness ==
    /\ last.op = "deleteNode" /\ last.edges_removed >= 1
    /\ nodes # <<>>

\* the positions of s whose element Keep holds of, and the place each takes among them
KeptAt(s, Keep(_)) == {i \in DOMAIN s : Keep(s[i])}
PlaceIn(K, i) == Cardinality({j \in K : j <= i})
\* t is s with exactly the elements Keep fails of taken out, the others as they were
IsRestriction(s, t, Keep(_)) ==
    /\ Len(t) = Cardinality(KeptAt(s, Keep))
    /\ \A i \in KeptAt(s, Keep) : t[PlaceIn(KeptAt(s, Keep), i)] = s[i]

\* C3: deleteNode(n) on a graph containing n removes the node(s) with id n and
\* the edges whose source or target is n, and keeps every other node and edge
\* unchanged and in the same relative order
C3_CascadeDelete ==
    [][(last'.op = "deleteNode" /\ last'.selected /\ selected_node \in NodeIdsOf(nodes)) =>
        LET n == selected_node
        IN  /\ IsRestriction(nodes, nodes', LAMBDA x : x.id # n)
            /\ IsRestriction(edges, edges', LAMBDA e : e.source # n /\ e.target # n)]_vars

\* a delete removed a node and an edge and left two nodes and two edges behind
C3_Witness ==
    /\ last.op = "deleteNode" /\ last.selected /\ last.edges_removed >= 1
    /\ Len(nodes) = 2 /\ Len(edges) = 2

\* the ids an edge leads to from one of the ids in S
EdgeSuccessors(es, S) == {es[i].target : i \in {j \in DOMAIN es : es[j].source \in S}}

\* the ids reached from the ids in S by one edge or more
RECURSIVE ReachedFrom(_, _, _)
ReachedFrom(es, S, acc) ==
    LET more == acc \cup EdgeSuccessors(es, S \cup acc)
    IN  IF more = acc THEN acc ELSE ReachedFrom(es, S, more)

HasDirectedCycle(ns, es) ==
    \E x \in NodeIdsOf(ns) : x \in ReachedFrom(es, {x}, {})

\* C8: on a graph with distinct node ids and no dangling edge, has_cycle is
\* true exactly when the edges contain a directed cycle (a self-loop is one,
\* parallel edges are not)
C8_HasCycleIffCycle ==
    last.op = "has_cycle" => (last.result <=> HasDirectedCycle(nodes, edges))

\* has_cycle answered true on the chain n_1 -> n_2 -> n_3 closed by n_3 -> n_1
C8_Witness ==
    /\ last.op = "has_cycle" /\ last.result
    /\ [i \in DOMAIN edges |-> <<edges[i].source, edges[i].target>>]
          = << <<"n_1", "n_2">>, <<"n_2", "n_3">>, <<"n_3", "n_1">> >>

\* the positions of the edges leaving node id x
OutAt(es, x) == {i \in DOMAIN es : es[i].source = x}

AbsDiff(a, b) == IF a >= b THEN a - b ELSE b - a

\* C9: autoComputeProbabilities leaves every outgoing edge of a decision node
\* unchanged when one of them has a nonzero probability, the absent and zero
\* ones included
C9_NoPartialRedistribution ==
    [][last'.op = "autoCompute" =>
        \A d \in DecisionIds(nodes) :
            (\E i \in OutAt(edges, d) : has_prob(edges[i]) /\ edges[i].data.prob # 0)
            => /\ Len(edges') = Len(edges)
               /\ \A i \in OutAt(edges, d) : edges'[i] = edges[i]]_vars

\* auto-compute ran and a decision node still has a nonzero, a zero and an absent
\* probability side by side
C9_Witness ==
    /\ last.op = "autoCompute"
    /\ \E d \in DecisionIds(nodes) :
          /\ \E i \in OutAt(edges, d) : has_prob(edges[i]) /\ edges[i].data.prob = 400
          /\ \E i \in OutAt(edges, d) : has_prob(edges[i]) /\ edges[i].data.prob = 0
          /\ \E i \in OutAt(edges, d) : ~has_prob(edges[i])

\* C10: a decision node with count >= 1 outgoing edges, all without or with
\* zero probability, gets 1/count rounded to three decimals on each of them
\* (the thousandth nearest to 1/count: no neighbour is nearer), and the shares
\* sum to 1.0 within 0.001 * count
C10_EqualShares ==
    [][last'.op = "autoCompute" =>
        \A d \in DecisionIds(nodes) :
            LET out == OutAt(edges, d)
                count == Cardinality(out)
            IN  (count >= 1 /\ \A i \in out : prob_none_or_zero(edges[i]))
                => \A i \in out :
                     /\ has_prob(edges'[i])
                     /\ LET p == edges'[i].data.prob
                        IN  /\ \A q \in {p - 1, p + 1} :
                                 AbsDiff(1000, p * count) <= AbsDiff(1000, q * count)
                            /\ AbsDiff(1000, p * count) <= count]_vars

\* auto-compute gave six edges of a decision node 0.167 each: the sum is 1.002
C10_Witness ==
    /\ last.op = "autoCompute"
    /\ \E d \in DecisionIds(nodes) :
          /\ Cardinality(OutAt(edges, d)) = 6
          /\ \A i \in OutAt(edges, d) : has_prob(edges[i]) /\ edges[i].data.prob = 167

\* C4: a rejected addEdge (self-loop or duplicate) reports the failure and
\* leaves the node sequence and the edge sequence as they were
C4_RejectionIsNoOp ==
    [][(last'.op = "addEdge" /\ last'.result \in {"self_loop", "duplicate"})
        => (nodes' = nodes /\ edges' = edges)]_vars

\* a duplicate has just been rejected
C4_Witness ==
    /\ last.op = "addEdge" /\ last.result = "duplicate"
    /\ Len(edges) >= 1

\* C5: no two distinct edges have the same (source, target) pair
C5_NoDuplicatePair ==
    \A i, j \in DOMAIN edges :
        i # j => <<edges[i].source, edges[i].target>> # <<edges[j].source, edges[j].target>>

\* a duplicate was rejected although the pair as supplied was not in the graph:
\* the check was made on the pair after auto-orient and reverse
C5_Witness ==
    /\ last.op = "addEdge" /\ last.result = "duplicate"
    /\ ~last.supplied_exists

\* C6: node ids are pairwise distinct and edge ids are pairwise distinct
C6_UniqueIds ==
    /\ \A i, j \in DOMAIN nodes : i # j => nodes[i].id # nodes[j].id
    /\ \A i, j \in DOMAIN edges : i # j => edges[i].id # edges[j].id

\* C7: an accepted addEdge(s, t) inserts the edge from the lower-ranked to the
\* higher-ranked node ((s, t) on equal ranks) with auto-orient alone, the
\* opposite of that with auto-orient and reverse, (s, t) with neither flag and
\* (t, s) with reverse alone
C7_Orientation ==
    [][(last'.op = "addEdge" /\ last'.result = "added") =>
        LET s == last'.source
            t == last'.target
            rs == kind_rank(kind_of(nodes, s))
            rt == kind_rank(kind_of(nodes, t))
            low_to_high == IF rs < rt THEN <<s, t>>
                           ELSE IF rt < rs THEN <<t, s>>
                           ELSE <<s, t>>
            expected ==
                CASE last'.auto_orient /\ ~last'.reverse_dir -> low_to_high
                  [] last'.auto_orient /\ last'.reverse_dir -> <<low_to_high[2], low_to_high[1]>>
                  [] ~last'.auto_orient /\ ~last'.reverse_dir -> <<s, t>>
                  [] ~last'.auto_orient /\ last'.reverse_dir -> <<t, s>>
            e == edges'[Len(edges')]
        IN  /\ Len(edges') = Len(edges) + 1
            /\ SubSeq(edges', 1, Len(edges)) = edges
            /\ <<e.source, e.target>> = expected]_vars

\* auto-orient swapped a higher-ranked first node and reverse swapped it back
C7_Witness ==
    /\ last.op = "addEdge" /\ last.result = "added"
    /\ last.auto_orient /\ last.reverse_dir
    /\ kind_rank(kind_of(nodes, last.source)) > kind_rank(kind_of(nodes, last.target))
    /\ edges[Len(edges)].source = last.source

\* the warnings of kind "prob_sum" in w that name the label l
ProbSumWarningsFor(w, l) == {i \in DOMAIN w : w[i].kind = "prob_sum" /\ w[i].label = l}

\* C11: validate emits a probability-sum warning for a node exactly when the
\* node is a decision node with at least one outgoing edge, at least one of
\* them carries a probability (0 counts), and the sum of the outgoing
\* probabilities (absent ones as 0) lies outside [0.99, 1.01]
C11_ProbSumWarningIff ==
    last.op = "validate" =>
        \A n \in DOMAIN nodes :
            LET out == OutAt(edges, nodes[n].id)
                total == SumSeq([i \in DOMAIN edges |->
                                   IF i \in out /\ has_prob(edges[i])
                                   THEN edges[i].data.prob ELSE 0])
            IN  (ProbSumWarningsFor(last.warnings, nodes[n].data.label) # {})
                <=> /\ nodes[n].kind = "decision"
                    /\ out # {}
                    /\ \E i \in out : has_prob(edges[i])
                    /\ (total < 990 \/ total > 1010)

C13_ProbInUnitInterval ==
    \A i \in DOMAIN edges :
        has_prob(edges[i]) => (0 <= edges[i].data.prob /\ edges[i].data.prob <= 1000)

\* auto-compute has just given the single outgoing edge of a decision node 1.0,
\* next to an edge that carries the 0.5 typed into the form
C13_Witness ==
    /\ last.op = "autoCompute"
    /\ \E i \in DOMAIN edges : has_prob(edges[i]) /\ edges[i].data.prob = 1000
    /\ \E i \in DOMAIN edges : has_prob(edges[i]) /\ edges[i].data.prob = 500

\* C14: autoComputeProbabilities is idempotent: run on the graph it has just
\* left it changes no edge, because no decision node that received shares
\* still has all its outgoing probabilities absent or zero
C14_AutoComputeIdempotent ==
    [][last'.op = "autoCompute" =>
        /\ auto_compute_probabilities(nodes', edges') = edges'
        /\ \A d \in DecisionIds(nodes) :
              (OutAt(edges, d) # {} /\ \A i \in OutAt(edges, d) : prob_none_or_zero(edges[i]))
              => \E i \in OutAt(edges', d) : ~prob_none_or_zero(edges'[i])]_vars

\* auto-compute has given shares to decision node h_2 and left decision node
\* h_1, which has a 0.4 next to an edge without a probability, alone
C14_Witness ==
    /\ last.op = "autoCompute"
    /\ nodes[1].kind = "decision"
    /\ \E i \in OutAt(edges, "h_1") : ~has_prob(edges[i])
    /\ \E i \in OutAt(edges, "h_1") : has_prob(edges[i]) /\ edges[i].data.prob = 400
    /\ Cardinality(OutAt(edges, "h_2")) = 3
    /\ \A i \in OutAt(edges, "h_2") : has_prob(edges[i]) /\ edges[i].data.prob = 333

\* the outgoing edges of d are two with probability 0.5 and one without
HalfHalfAbsent(es, d) ==
    /\ Cardinality(OutAt(es, d)) = 3
    /\ Cardinality({i \in OutAt(es, d) : has_prob(es[i]) /\ es[i].data.prob = 500}) = 2
    /\ Cardinality({i \in OutAt(es, d) : ~has_prob(es[i])}) = 1

\* C15: auto-compute gives the two outgoing edges of a decision node that
\* carry no probability 0.5 each; once the node has gained a third outgoing
\* edge without probability, auto-compute changes no edge, and validate emits
\* no probability-sum warning for the node (the sum is 1.0)
C15_StaleSharesKept ==
    [][\A d \in DecisionIds(nodes) :
        /\ (/\ last'.op = "autoCompute"
            /\ Cardinality(OutAt(edges, d)) = 2
            /\ \A i \in OutAt(edges, d) : ~has_prob(edges[i]))
           => /\ Len(edges') = Len(edges)
              /\ \A i \in OutAt(edges, d) :
                    has_prob(edges'[i]) /\ edges'[i].data.prob = 500
        /\ (last'.op = "autoCompute" /\ HalfHalfAbsent(edges, d))
           => edges' = edges
        /\ (last'.op = "validate" /\ HalfHalfAbsent(edges, d))
           => /\ SumSeq(prob_addends(edges, d)) = 1000
              /\ ProbSumWarningsFor(last'.warnings, label_of(nodes, d)) = {}]_vars

\* auto-compute ran on d_1 with 0.5, 0.5 and a third edge without probability,
\* which is still without one
C15_Witness ==
    /\ last.op = "autoCompute"
    /\ HalfHalfAbsent(edges, "d_1")
    /\ ~has_prob(edges[3]) /\ edges[3].source = "d_1"

\* the position of the node labelled l (labels are distinct in the family)
NodePos(ns, l) == CHOOSE i \in DOMAIN ns : ns[i].data.label = l

\* C16: validate returns the self-loop warnings in edge order, then the
\* probability-sum warnings in node order (one for every decision node with
\* an explicit outgoing probability whose sum is below 0.99 or above 1.01),
\* then the cycle warning, once and last, exactly when has_cycle is true
C16_WarningOrder ==
    last.op = "validate" =>
        LET w == last.warnings
            loops == SelectSeq(edges, LAMBDA e : e.source = e.target)
            a == Len(loops)
            ps == {i \in DOMAIN w : w[i].kind = "prob_sum"}
            b == Cardinality(ps)
            c == IF has_cycle(nodes, edges) THEN 1 ELSE 0
        IN  /\ Len(w) = a + b + c
            /\ \A i \in 1..a :
                  w[i] = [kind |-> "self_loop", label |-> label_of(nodes, loops[i].source)]
            /\ ps = (a + 1)..(a + b)
            /\ \A i, j \in ps : i < j => NodePos(nodes, w[i].label) < NodePos(nodes, w[j].label)
            /\ \A n \in DOMAIN nodes :
                  (/\ nodes[n].kind = "decision"
                   /\ \E i \in OutAt(edges, nodes[n].id) : has_prob(edges[i])
                   /\ LET t == SumSeq(prob_addends(edges, nodes[n].id))
                      IN  t < 990 \/ t > 1010)
                  => \E i \in ps : w[i].label = nodes[n].data.label
            /\ c = 1 => w[Len(w)] = [kind |-> "cycle"]

\* validate returned two self-loop warnings, a probability-sum warning for each
\* of the two decision nodes, and the cycle warning
C16_Witness ==
    /\ last.op = "validate"
    /\ Len(last.warnings) = 4
    /\ last.warnings[1].kind = "self_loop"
    /\ last.warnings[2] = [kind |-> "prob_sum", label |-> "n_1", total |-> 50]
    /\ last.warnings[3] = [kind |-> "prob_sum", label |-> "n_2", total |-> 50]
    /\ last.warnings[4] = [kind |-> "cycle"]

\* the edge (s, t) would close a directed cycle in es: s is reached from t
ClosesCycle(es, s, t) == s \in ReachedFrom(es, {t}, {})

\* the last warning of w is the cycle warning
EndsWithCycleWarning(w) == w # <<>> /\ w[Len(w)] = [kind |-> "cycle"]

\* C17: an addEdge whose final (source, target) closes a directed cycle, and is
\* neither a self-loop nor a duplicate, is accepted and appended; the validate
\* that follows reports the cycle; and while warnings are shown add node, add
\* edge, delete, clear and auto-compute stay available
C17_CyclesPermittedFlagged ==
    /\ Len(nodes) >= 2 =>
          \A source \in source_options(nodes) :
          \A target \in target_options(nodes, source) :
          \A auto_orient \in BOOLEAN, reverse_dir \in BOOLEAN, eid \in new_edge_id :
              LET st == orient(nodes, source, target, auto_orient, reverse_dir)
                  after == add_edge_edges(nodes, edges, source, target, auto_orient,
                                          reverse_dir, "", FALSE, None, eid)
              IN  (/\ kind_of(nodes, source) # None /\ kind_of(nodes, target) # None
                   /\ st[1] # st[2]
                   /\ ~already_exists(edges, st[1], st[2])
                   /\ ClosesCycle(edges, st[1], st[2]))
                  => /\ add_edge_result(nodes, edges, source, target, auto_orient,
                                        reverse_dir) = "added"
                     /\ Len(after) = Len(edges) + 1
                     /\ SubSeq(after, 1, Len(edges)) = edges
                     /\ after[Len(after)].source = st[1]
                     /\ after[Len(after)].target = st[2]
                     /\ EndsWithCycleWarning(validate_graph(nodes, after))
    /\ (last.op = "addEdge" /\ last.result = "added" /\ HasDirectedCycle(nodes, edges))
          => EndsWithCycleWarning(validate_graph(nodes, edges))
    /\ validate_graph(nodes, edges) # <<>>
          => /\ ENABLED AddNode
             /\ ENABLED DeleteNode
             /\ ENABLED Clear
             /\ ENABLED AutoCompute
             /\ Len(nodes) >= 2 => ENABLED AddEdge

\* an edge that closes the cycle n -> m -> n was appended while validate already
\* showed a probability-sum warning, and the cycle warning now follows it
C17_Witness ==
    /\ last.op = "addEdge" /\ last.result = "added"
    /\ Len(edges) = 2
    /\ edges[2].source = edges[1].target /\ edges[2].target = edges[1].source
    /\ \E i \in DOMAIN validate_graph(nodes, SubSeq(edges, 1, 1)) :
          validate_graph(nodes, SubSeq(edges, 1, 1))[i].kind = "prob_sum"
    /\ EndsWithCycleWarning(validate_graph(nodes, edges))
    /\ Len(validate_graph(nodes, edges)) >= 2

\* auto-compute gives shares to d in es: d has outgoing edges, all without a
\* probability or with 0
ReceivesShares(es, d) ==
    OutAt(es, d) # {} /\ \A i \in OutAt(es, d) : prob_none_or_zero(es[i])

\* C18 as stated: right after auto-compute gave shares to the outgoing edges of
\* a decision node, validate emits no probability-sum warning for the node,
\* however many outgoing edges it has
C18_NoWarningAfterShares ==
    [][last'.op = "autoCompute" =>
        \A d \in DecisionIds(nodes) :
            ReceivesShares(edges, d)
            => ProbSumWarningsFor(validate_graph(nodes', edges'), label_of(nodes, d)) = {}]_vars

\* C18 amended: right after auto-compute gave shares to the outgoing edges of
\* a decision node with at most 22 outgoing edges, validate emits no
\* probability-sum warning for the node
C18_NoWarningAfterSharesUpTo22 ==
    [][last'.op = "autoCompute" =>
        \A d \in DecisionIds(nodes) :
            (ReceivesShares(edges, d) /\ Cardinality(OutAt(edges, d)) <= 22)
            => ProbSumWarningsFor(validate_graph(nodes', edges'), label_of(nodes, d)) = {}]_vars

\* auto-compute gave 22 edges of the decision hub 0.045 each, 0.99 in all, and
\* validate has no warning for it
C18_Witness ==
    /\ last.op = "autoCompute"
    /\ nodes[1].kind = "decision"
    /\ Cardinality(OutAt(edges, "h_1")) = 22
    /\ \A i \in OutAt(edges, "h_1") : has_prob(edges[i]) /\ edges[i].data.prob = 45
    /\ validate_graph(nodes, edges) = <<>>

\* C19: when every edge was added with auto-orient on and reverse off, every
\* edge runs from a kind of lower or equal rank to one of higher or equal
\* rank, two nodes on a common directed cycle have the same kind, and
\* has_cycle is false whenever no edge joins two nodes of the same kind
C19_OrientedAcyclic ==
    /\ \A i \in DOMAIN edges :
          kind_rank(kind_of(nodes, edges[i].source)) <= kind_rank(kind_of(nodes, edges[i].target))
    /\ \A x, y \in NodeIdsOf(nodes) :
          (y \in ReachedFrom(edges, {x}, {}) /\ x \in ReachedFrom(edges, {y}, {}))
          => kind_of(nodes, x) = kind_of(nodes, y)
    /\ (\A i \in DOMAIN edges :
          kind_of(nodes, edges[i].source) # kind_of(nodes, edges[i].target))
       => ~has_cycle(nodes, edges)

\* C20: autoComputeProbabilities changes nothing but the probability of edges
\* whose source is a decision node: the nodes, the number and order of the
\* edges, every edge's id, source, target and label, and the probability of
\* every edge leaving an event or result node stay as they were
C20_AutoComputeFrame ==
    [][last'.op = "autoCompute" =>
        /\ nodes' = nodes
        /\ Len(edges') = Len(edges)
        /\ \A i \in DOMAIN edges :
              /\ edges'[i].id = edges[i].id
              /\ edges'[i].source = edges[i].source
              /\ edges'[i].target = edges[i].target
              /\ edges'[i].label = edges[i].label
              /\ DOMAIN edges'[i] = DOMAIN edges[i]
              /\ DOMAIN edges'[i].data \subseteq {"prob"}
              /\ edges[i].source \notin DecisionIds(nodes) => edges'[i].data = edges[i].data]_vars

\* auto-compute gave shares to the edges of decision node h_2 and left the
\* edges of h_1, an event node whose edges carry no probability or 0, alone
C20_Witness ==
    /\ last.op = "autoCompute"
    /\ nodes[1].kind = "event"
    /\ \E i \in OutAt(edges, "h_1") : ~has_prob(edges[i])
    /\ \E i \in OutAt(edges, "h_1") : has_prob(edges[i]) /\ edges[i].data.prob = 0
    /\ Cardinality(OutAt(edges, "h_2")) = 2
    /\ \A i \in OutAt(edges, "h_2") : has_prob(edges[i]) /\ edges[i].data.prob = 500

====
